---- MODULE Spec2Model ----
(***************************************************************************)
(* A model of src/api/BPFTable.h: the typed handles over kernel BPF maps   *)
(* (constructors and their kind checks, per-CPU update, hash-table walk,   *)
(* queue/stack access) and the per-CPU perf buffer / perf event array.     *)
(*                                                                         *)
(* The kernel side of every bpf_* call is the environment of the handles:  *)
(* it is modelled at the place where the header issues the call.           *)
(***************************************************************************)
EXTENDS Integers, Sequences, FiniteSets, TLC

\* ------------------------------------------------------------------ bounds

\* possible CPUs (BPFTable::get_possible_cpu_count())
NCpus == 2
\* longest sequence a caller hands to a per-CPU update_value
MaxSeqLen == 3
\* keys of the hash map
NKeys == 3
\* writes by other users of the map while one walk is in progress
MaxWrites == 2
\* desc.max_entries of the queue/stack
QCap == 3
\* samples the kernel produces for the perf buffer
MaxSamples == 3
\* samples one per-CPU ring buffer holds before it drops new ones
RingCap == 2

\* ------------------------------------------------------------- map kinds

ARRAY == "BPF_MAP_TYPE_ARRAY"
PERCPU_ARRAY == "BPF_MAP_TYPE_PERCPU_ARRAY"
HASH == "BPF_MAP_TYPE_HASH"
PERCPU_HASH == "BPF_MAP_TYPE_PERCPU_HASH"
LRU_HASH == "BPF_MAP_TYPE_LRU_HASH"
LRU_PERCPU_HASH == "BPF_MAP_TYPE_LRU_PERCPU_HASH"
QUEUE == "BPF_MAP_TYPE_QUEUE"
STACK == "BPF_MAP_TYPE_STACK"
ARRAY_OF_MAPS == "BPF_MAP_TYPE_ARRAY_OF_MAPS"
HASH_OF_MAPS == "BPF_MAP_TYPE_HASH_OF_MAPS"
SK_STORAGE == "BPF_MAP_TYPE_SK_STORAGE"
INODE_STORAGE == "BPF_MAP_TYPE_INODE_STORAGE"
TASK_STORAGE == "BPF_MAP_TYPE_TASK_STORAGE"
CGROUP_STORAGE == "BPF_MAP_TYPE_CGROUP_STORAGE"
PERCPU_CGROUP_STORAGE == "BPF_MAP_TYPE_PERCPU_CGROUP_STORAGE"

\* desc.type ranges over the kinds the header tests for and the kinds whose
\* handles are built elsewhere (prog array, cgroup array, devmap, ...).
MapKinds ==
    { ARRAY, PERCPU_ARRAY, HASH, PERCPU_HASH, LRU_HASH, LRU_PERCPU_HASH,
      QUEUE, STACK, ARRAY_OF_MAPS, HASH_OF_MAPS,
      "BPF_MAP_TYPE_PROG_ARRAY", "BPF_MAP_TYPE_CGROUP_ARRAY",
      "BPF_MAP_TYPE_DEVMAP", "BPF_MAP_TYPE_XSKMAP",
      "BPF_MAP_TYPE_SOCKMAP", "BPF_MAP_TYPE_SOCKHASH",
      SK_STORAGE, INODE_STORAGE, TASK_STORAGE,
      CGROUP_STORAGE, PERCPU_CGROUP_STORAGE }

\* sizeof(ValueType) of the template instance
LeafSizes == {4, 8, 12}

\* the class templates of the header that check desc.type themselves
Variants ==
    { "BPFQueueStackTable", "BPFArrayTable", "BPFPercpuArrayTable",
      "BPFHashTable", "BPFPercpuHashTable", "BPFMapInMapTable",
      "BPFSkStorageTable", "BPFInodeStorageTable", "BPFTaskStorageTable",
      "BPFCgStorageTable", "BPFPercpuCgStorageTable" }

VARIABLES
    \* the build: whether the preprocessor sees BPF_MAP_TYPE_INODE_STORAGE /
    \* BPF_MAP_TYPE_TASK_STORAGE as macros (#ifdef at lines 557 and 589)
    def_inode_storage, def_task_storage,
    \* the last constructor call: its template, descriptor, and what it did
    ctor,
    \* the handle the last constructor call left behind ("none": it threw)
    handle,
    \* the last get_value call on that handle: the bytes of the destination
    \* it handed to bpf_lookup_elem and the bytes the kernel wrote there
    glast

ctorVars == <<def_inode_storage, def_task_storage, ctor, handle, glast>>

VARIABLES
    \* the per-CPU handle in use (its class) and the kernel map behind it
    pvariant, pmap,
    \* the last update_value call
    plast

percpuVars == <<pvariant, pmap, plast>>

VARIABLES
    \* the kernel hash map behind a BPFHashTable: its entries and the order
    \* in which the kernel's first-key / next-key walk meets the keys
    hmap, horder,
    \* get_table_offline in progress: where it stands, its locals cur, res
    \* and r; res is also what it returns
    hpc, hcur, hres, hr,
    \* history: the writes of other users of the map while a call of the
    \* handle (the walk, or clear_table_non_atomic) runs
    hwrites

VARIABLES
    \* clear_table_non_atomic in progress: where it stands, its local cur and
    \* the status it returns
    cpc, ccur, cret,
    \* history of the running clear: the entries the map held when it was
    \* called, its deletes that succeeded and that failed, whether each delete
    \* was given the key the kernel held first at that moment, and whether
    \* its last first-key call met an empty map
    cstart, cdel, cfail, cheads, cempty

clearVars == <<cpc, ccur, cret, cstart, cdel, cfail, cheads, cempty>>

hashVars == <<hmap, horder, hpc, hcur, hres, hr, hwrites, clearVars>>

VARIABLES
    \* the kernel queue or stack behind a BPFQueueStackTable: desc.type, the
    \* access mode of desc.fd, and the items it holds, oldest first
    qtype, qperm, q,
    \* the last call on the handle
    qlast,
    \* history of the current round (from the first push into an empty
    \* container): whether a push followed a pop, whether a push evicted an
    \* item and, while neither happened, the items pushed and the items popped
    qpushed, qpopped, qmixed, qevicted

queueVars == <<qtype, qperm, q, qlast, qpushed, qpopped, qmixed, qevicted>>

VARIABLES
    \* BPFPerfBuffer: whether the object lives, cpu_readers_ (the CPUs that
    \* have an open reader), and the wakeup_events it was opened with
    pb_alive, cpu_readers, wakeup_events,
    \* the kernel's ring buffer of each CPU (sample ids, oldest first) and
    \* whether it dropped a sample since it was last drained
    ring, lost_pending,
    \* the samples the kernel produced so far (ids 1..nsamples), how often
    \* data_cb got each (2: more than once), and the samples that are gone
    \* undelivered (dropped by a full ring, or released with their reader)
    nsamples, delivered, gone,
    \* the last call on the perf buffer
    pblast,
    \* history: the CPU at which the last open_all_cpu failed (-1: none, or
    \* closed since), and whether close_all_cpu ran with no open since
    pb_failed_at, pb_closed,
    \* BPFPerfEventArray: cpu_fds_, its last call, and the same history
    cpu_fds, pealast, pea_failed_at

perfVars == <<pb_alive, cpu_readers, wakeup_events, ring, lost_pending, nsamples,
              delivered, gone, pblast, pb_failed_at, pb_closed,
              cpu_fds, pealast, pea_failed_at>>

vars == <<ctorVars, percpuVars, hashVars, queueVars, perfVars>>

\* what the operations of one group of handles leave alone
notCtor == <<percpuVars, hashVars, queueVars, perfVars>>
notPercpu == <<ctorVars, hashVars, queueVars, perfVars>>
notHash == <<ctorVars, percpuVars, queueVars, perfVars>>
notQueue == <<ctorVars, percpuVars, hashVars, perfVars>>
notPerf == <<ctorVars, percpuVars, hashVars, queueVars>>

\* ------------------------------------------------------------ constructors

Constructed == [ok |-> TRUE, exc |-> "none", what |-> "none"]
invalid_argument(what) == [ok |-> FALSE, exc |-> "std::invalid_argument", what |-> what]
runtime_error(what) == [ok |-> FALSE, exc |-> "std::runtime_error", what |-> what]

NotAligned == invalid_argument("leaf must be aligned to 8 bytes")

BPFQueueStackTable_ctor(desc) ==
    IF desc.type # QUEUE /\ desc.type # STACK
    THEN invalid_argument("is not a queue/stack table")
    ELSE Constructed

BPFArrayTable_ctor(desc) ==
    IF desc.type # ARRAY /\ desc.type # PERCPU_ARRAY
    THEN invalid_argument("is not an array table")
    ELSE Constructed

\* the base class constructor runs first, then the derived checks
BPFPercpuArrayTable_ctor(desc, sizeofValue) ==
    LET base == BPFArrayTable_ctor(desc)
    IN  IF ~base.ok THEN base
        ELSE IF desc.type # PERCPU_ARRAY
        THEN invalid_argument("is not a percpu array table")
        ELSE IF sizeofValue % 8 # 0 THEN NotAligned
        ELSE Constructed

BPFHashTable_ctor(desc) ==
    IF /\ desc.type # HASH
       /\ desc.type # PERCPU_HASH
       /\ desc.type # LRU_HASH
       /\ desc.type # LRU_PERCPU_HASH
    THEN invalid_argument("is not a hash table")
    ELSE Constructed

BPFPercpuHashTable_ctor(desc, sizeofValue) ==
    LET base == BPFHashTable_ctor(desc)
    IN  IF ~base.ok THEN base
        ELSE IF desc.type # PERCPU_HASH /\ desc.type # LRU_PERCPU_HASH
        THEN invalid_argument("is not a percpu hash table")
        ELSE IF sizeofValue % 8 # 0 THEN NotAligned
        ELSE Constructed

BPFMapInMapTable_ctor(desc) ==
    IF desc.type # ARRAY_OF_MAPS /\ desc.type # HASH_OF_MAPS
    THEN invalid_argument("is not a map-in-map table")
    ELSE Constructed

BPFSkStorageTable_ctor(desc) ==
    IF desc.type # SK_STORAGE
    THEN invalid_argument("is not a sk_storage table")
    ELSE Constructed

\* #ifdef BPF_MAP_TYPE_INODE_STORAGE ... #else throw std::runtime_error
BPFInodeStorageTable_ctor(desc) ==
    IF def_inode_storage
    THEN IF desc.type # INODE_STORAGE
         THEN invalid_argument("is not a inode_storage table")
         ELSE Constructed
    ELSE runtime_error("BPF_MAP_TYPE_INODE_STORAGE is not supported on this kernel")

\* #ifdef BPF_MAP_TYPE_TASK_STORAGE ... #else throw std::runtime_error
BPFTaskStorageTable_ctor(desc) ==
    IF def_task_storage
    THEN IF desc.type # TASK_STORAGE
         THEN invalid_argument("is not a task_storage table")
         ELSE Constructed
    ELSE runtime_error("BPF_MAP_TYPE_TASK_STORAGE is not supported on this kernel")

BPFCgStorageTable_ctor(desc) ==
    IF desc.type # CGROUP_STORAGE
    THEN invalid_argument("is not a cgroup_storage table")
    ELSE Constructed

BPFPercpuCgStorageTable_ctor(desc, sizeofValue) ==
    IF desc.type # PERCPU_CGROUP_STORAGE
    THEN invalid_argument("is not a percpu_cgroup_storage table")
    ELSE IF sizeofValue % 8 # 0 THEN NotAligned
    ELSE Constructed

\* `new Variant<ValueType>(desc)`
ConstructVariant(variant, desc, sizeofValue) ==
    CASE variant = "BPFQueueStackTable" -> BPFQueueStackTable_ctor(desc)
      [] variant = "BPFArrayTable" -> BPFArrayTable_ctor(desc)
      [] variant = "BPFPercpuArrayTable" -> BPFPercpuArrayTable_ctor(desc, sizeofValue)
      [] variant = "BPFHashTable" -> BPFHashTable_ctor(desc)
      [] variant = "BPFPercpuHashTable" -> BPFPercpuHashTable_ctor(desc, sizeofValue)
      [] variant = "BPFMapInMapTable" -> BPFMapInMapTable_ctor(desc)
      [] variant = "BPFSkStorageTable" -> BPFSkStorageTable_ctor(desc)
      [] variant = "BPFInodeStorageTable" -> BPFInodeStorageTable_ctor(desc)
      [] variant = "BPFTaskStorageTable" -> BPFTaskStorageTable_ctor(desc)
      [] variant = "BPFCgStorageTable" -> BPFCgStorageTable_ctor(desc)
      [] variant = "BPFPercpuCgStorageTable" -> BPFPercpuCgStorageTable_ctor(desc, sizeofValue)

NoCtor == [variant |-> "none", type |-> "none", sizeofValue |-> 0, outcome |-> Constructed]
NoHandle == [variant |-> "none", type |-> "none"]
NoGet == [called |-> FALSE, found |-> FALSE, buffer |-> 0, written |-> 0]

\* A constructor call: a handle exists afterwards only if nothing was thrown.
Construct ==
    \E variant \in Variants, type \in MapKinds, sizeofValue \in LeafSizes :
        LET desc == [type |-> type]
            outcome == ConstructVariant(variant, desc, sizeofValue)
        IN  /\ ctor' = [variant |-> variant, type |-> type,
                        sizeofValue |-> sizeofValue, outcome |-> outcome]
            /\ handle' = IF outcome.ok
                         THEN [variant |-> variant, type |-> type]
                         ELSE NoHandle
            /\ glast' = NoGet
            /\ UNCHANGED <<def_inode_storage, def_task_storage, notCtor>>

CtorInit ==
    /\ def_inode_storage \in BOOLEAN
    /\ def_task_storage \in BOOLEAN
    /\ ctor = NoCtor
    /\ handle = NoHandle
    /\ glast = NoGet

\* ----------------------------------------------------- per-CPU update_value

StatusOK == [code |-> 0, msg |-> "OK"]
StatusTuple(code, msg) == [code |-> code, msg |-> msg]

\* std::strerror for the errno values the modelled kernel calls leave behind
strerror(errno) ==
    CASE errno = "EPERM" -> "Operation not permitted"
      [] errno = "ENOENT" -> "No such file or directory"
      [] errno = "E2BIG" -> "Argument list too long"
      [] errno = "EINVAL" -> "Invalid argument"

\* StatusTuple(-1, "<what>: %s", std::strerror(errno))
ErrnoStatus(what, errno) == StatusTuple(-1, <<what, strerror(errno)>>)

PercpuVariants == {"BPFPercpuArrayTable", "BPFPercpuHashTable", "BPFPercpuCgStorageTable"}
PKeys == {0, 1}
PVals == {0, 1}
\* the sequences a caller may pass: every length from 0 to MaxSeqLen
PSeqs == UNION { [1..n -> PVals] : n \in 0..MaxSeqLen }

\* std::vector::resize(n): cut, or fill up with value-initialised elements
Resize(seq, n) == [i \in 1..n |-> IF i <= Len(seq) THEN seq[i] ELSE 0]

\* bpf_update_elem(fd, key, value, 0) on a per-CPU map: the kernel copies
\* NCpus values from the buffer.  An array has every index, a hash creates
\* the key, a cgroup storage exists only for an attached cgroup.
KernelPercpuUpdate(variant, map, key, buf) ==
    IF variant = "BPFPercpuCgStorageTable" /\ key \notin DOMAIN map
    THEN [errno |-> "ENOENT", map |-> map]
    ELSE [errno |-> "none",
          map |-> [k \in DOMAIN map \cup {key} |-> IF k = key THEN buf ELSE map[k]]]

\* BPFTableBase::update as reached from the typed update_value: one kernel
\* call with the caller's buffer, an errno status on failure
BaseUpdateValue(variant, map, key, value) ==
    LET k == KernelPercpuUpdate(variant, map, key, value)
    IN  [status |-> IF k.errno # "none"
                    THEN ErrnoStatus("Error updating value", k.errno)
                    ELSE StatusOK,
         kcall |-> TRUE, map |-> k.map, value |-> value]

BadValueSize(map, value) ==
    [status |-> StatusTuple(-1, "bad value size"),
     kcall |-> FALSE, map |-> map, value |-> value]

\* BPFPercpuArrayTable::update_value
PercpuArray_update_value(map, index, value) ==
    IF Len(value) # NCpus
    THEN BadValueSize(map, value)
    ELSE BaseUpdateValue("BPFPercpuArrayTable", map, index, value)

\* BPFPercpuHashTable::update_value
PercpuHash_update_value(map, key, value) ==
    IF Len(value) # NCpus
    THEN BadValueSize(map, value)
    ELSE BaseUpdateValue("BPFPercpuHashTable", map, key, value)

\* BPFPercpuCgStorageTable::update_value: resizes the caller's vector in
\* place, then issues the kernel call
PercpuCgStorage_update_value(map, key, value) ==
    BaseUpdateValue("BPFPercpuCgStorageTable", map, key, Resize(value, NCpus))

Percpu_update_value(variant, map, key, value) ==
    CASE variant = "BPFPercpuArrayTable" -> PercpuArray_update_value(map, key, value)
      [] variant = "BPFPercpuHashTable" -> PercpuHash_update_value(map, key, value)
      [] variant = "BPFPercpuCgStorageTable" -> PercpuCgStorage_update_value(map, key, value)

NoPLast == [op |-> "none"]

UpdateValue ==
    \E key \in PKeys, value \in PSeqs :
        LET r == Percpu_update_value(pvariant, pmap, key, value)
        IN  /\ pmap' = r.map
            /\ plast' = [op |-> "update_value", key |-> key, given |-> value,
                         value |-> r.value, status |-> r.status,
                         kcall |-> r.kcall, mapBefore |-> pmap]
            /\ UNCHANGED <<pvariant, notPercpu>>

\* the cgroup a storage belongs to is attached or detached by the loader
CgAttach ==
    /\ pvariant = "BPFPercpuCgStorageTable"
    /\ \E key \in PKeys \ DOMAIN pmap :
           pmap' = [k \in DOMAIN pmap \cup {key} |->
                       IF k = key THEN [i \in 1..NCpus |-> 0] ELSE pmap[k]]
    /\ plast' = NoPLast
    /\ UNCHANGED <<pvariant, notPercpu>>

PercpuInit ==
    /\ pvariant \in PercpuVariants
    /\ pmap = IF pvariant = "BPFPercpuArrayTable"
              THEN [k \in PKeys |-> [i \in 1..NCpus |-> 0]]
              ELSE << >>
    /\ plast = NoPLast

PercpuIdle ==
    /\ pvariant = "BPFPercpuArrayTable"
    /\ pmap = [k \in PKeys |-> [i \in 1..NCpus |-> 0]]
    /\ plast = NoPLast

\* ---------------------------------------------------------------- get_value

\* the classes that have a get_value
GetVariants ==
    { "BPFArrayTable", "BPFPercpuArrayTable", "BPFHashTable",
      "BPFPercpuHashTable", "BPFSkStorageTable", "BPFInodeStorageTable",
      "BPFTaskStorageTable", "BPFCgStorageTable", "BPFPercpuCgStorageTable" }

\* the kinds whose entries hold one value per possible CPU
PercpuKinds == {PERCPU_ARRAY, PERCPU_HASH, LRU_PERCPU_HASH, PERCPU_CGROUP_STORAGE}

RoundUp8(n) == ((n + 7) \div 8) * 8

\* bpf_lookup_elem on a key the map holds: the bytes the kernel copies to the
\* caller's value pointer, by the kind of the map (value_size for the plain
\* kinds, round_up(value_size, 8) per possible CPU for the per-CPU kinds)
KernelValueSize(type, leaf_size) ==
    IF type \in PercpuKinds THEN RoundUp8(leaf_size) * NCpus ELSE leaf_size

\* get_value_addr(ValueType& t): the address of one ValueType
ValueBytes(sizeofValue) == sizeofValue

\* get_value_addr(std::vector<ValueType>& t): t.data(), len elements
VectorBytes(len, sizeofValue) == len * sizeofValue

\* BPFArrayTable::get_value, BPFHashTable::get_value and the get_value of the
\* sk, inode, task and cgroup storage tables: lookup into one ValueType
Plain_get_value(sizeofValue) == ValueBytes(sizeofValue)

\* BPFPercpuArrayTable::get_value, BPFPercpuHashTable::get_value and
\* BPFPercpuCgStorageTable::get_value: value.resize(ncpus), then the lookup
\* into value.data()
Percpu_get_value(len, sizeofValue) ==
    VectorBytes(Len(Resize([i \in 1..len |-> 0], NCpus)), sizeofValue)

\* the destination get_value of the class hands to bpf_lookup_elem
GetValueBuffer(variant, len, sizeofValue) ==
    IF variant \in PercpuVariants
    THEN Percpu_get_value(len, sizeofValue)
    ELSE Plain_get_value(sizeofValue)

\* get_value on the constructed handle; the handle was instantiated with the
\* value type of its map, desc.leaf_size = sizeof(ValueType). The kernel
\* writes only when it finds the key.
GetValue ==
    /\ handle # NoHandle
    /\ handle.variant \in GetVariants
    /\ \E found \in BOOLEAN, len \in 0..MaxSeqLen :
           glast' = [called |-> TRUE,
                     found |-> found,
                     buffer |-> GetValueBuffer(handle.variant, len, ctor.sizeofValue),
                     written |-> IF found
                                 THEN KernelValueSize(handle.type, ctor.sizeofValue)
                                 ELSE 0]
    /\ UNCHANGED <<def_inode_storage, def_task_storage, ctor, handle, notCtor>>

CtorIdle ==
    /\ def_inode_storage = FALSE
    /\ def_task_storage = FALSE
    /\ ctor = NoCtor
    /\ handle = NoHandle
    /\ glast = NoGet

\* ------------------------------------------------- BPFHashTable: the walk

HKeys == 1..NKeys
HVals == {0, 1}
NoKey == 0
\* the orders in which a kernel hash table may keep its keys
Orders == { o \in [1..NKeys -> HKeys] : \A i, j \in 1..NKeys : o[i] = o[j] => i = j }
\* every content the map can have
HashMaps == UNION { [D -> HVals] : D \in SUBSET HKeys }

\* the first key present at or after position `from` of the order, 0: none
FirstPresentAt(map, order, from) ==
    LET at == { i \in from..Len(order) : order[i] \in DOMAIN map }
    IN  IF at = {} THEN 0 ELSE CHOOSE i \in at : \A j \in at : i <= j

PosOf(order, key) == CHOOSE i \in 1..Len(order) : order[i] = key

\* bpf_get_first_key
KernelGetFirstKey(map, order) ==
    LET i == FirstPresentAt(map, order, 1)
    IN  IF i = 0 THEN [rc |-> -1, errno |-> "ENOENT", key |-> NoKey]
        ELSE [rc |-> 0, errno |-> "none", key |-> order[i]]

\* bpf_get_next_key: a key that is no longer in the table restarts the walk
\* at the first key
KernelGetNextKey(map, order, key) ==
    LET i == IF key \in DOMAIN map
             THEN FirstPresentAt(map, order, PosOf(order, key) + 1)
             ELSE FirstPresentAt(map, order, 1)
    IN  IF i = 0 THEN [rc |-> -1, errno |-> "ENOENT", key |-> NoKey]
        ELSE [rc |-> 0, errno |-> "none", key |-> order[i]]

\* bpf_lookup_elem
KernelLookupElem(map, key) ==
    IF key \in DOMAIN map
    THEN [rc |-> 0, errno |-> "none", value |-> map[key]]
    ELSE [rc |-> -1, errno |-> "ENOENT", value |-> 0]

\* a comparison slip: bpf_get_first_key returns 0 when it succeeds
TableBase_first_positive(map, order) ==
    LET k == KernelGetFirstKey(map, order)
    IN  [ok |-> k.rc > 0, key |-> k.key]

\* BPFTableBase::first
TableBase_first(map, order) ==
    LET k == KernelGetFirstKey(map, order)
    IN  [ok |-> k.rc >= 0, key |-> k.key]

\* a comparison slip: bpf_get_next_key returns 0 when it succeeds
TableBase_next_positive(map, order, key) ==
    LET k == KernelGetNextKey(map, order, key)
    IN  [ok |-> k.rc > 0, key |-> k.key]

\* BPFTableBase::next
TableBase_next(map, order, key) ==
    LET k == KernelGetNextKey(map, order, key)
    IN  [ok |-> k.rc >= 0, key |-> k.key]

\* BPFTableBase::lookup
TableBase_lookup(map, key) ==
    LET k == KernelLookupElem(map, key)
    IN  [ok |-> k.rc >= 0, errno |-> k.errno, value |-> k.value]

\* BPFHashTable::get_value
HashTable_get_value(map, key) ==
    LET l == TableBase_lookup(map, key)
    IN  IF ~l.ok
        THEN [status |-> ErrnoStatus("Error getting value", l.errno), value |-> l.value]
        ELSE [status |-> StatusOK, value |-> l.value]

Walking == hpc \in {"get_value", "next"}

Clearing == cpc \in {"first", "remove"}

\* a call of the handle is between two of its kernel calls
Running == Walking \/ Clearing

\* get_table_offline, up to its first-key call: an empty table returns res
GetTableOfflineFirst ==
    /\ hpc = "idle"
    /\ cpc = "idle"
    /\ LET f == TableBase_first(hmap, horder)
       IN  /\ hres' = << >>
           /\ hr' = StatusOK
           /\ hwrites' = 0
           /\ IF ~f.ok
              THEN hpc' = "done" /\ hcur' = NoKey
              ELSE hpc' = "get_value" /\ hcur' = f.key
    /\ UNCHANGED <<hmap, horder, clearVars, notHash>>

\* r = get_value(cur, value); if (!r.ok()) break; res.emplace_back(cur, value)
GetTableOfflineGetValue ==
    /\ hpc = "get_value"
    /\ LET g == HashTable_get_value(hmap, hcur)
       IN  /\ hr' = g.status
           /\ IF g.status.code # 0
              THEN hpc' = "done" /\ hres' = hres
              ELSE hpc' = "next" /\ hres' = Append(hres, <<hcur, g.value>>)
    /\ UNCHANGED <<hmap, horder, hcur, hwrites, clearVars, notHash>>

\* if (!this->next(&cur, &cur)) break
GetTableOfflineNext ==
    /\ hpc = "next"
    /\ LET n == TableBase_next(hmap, horder, hcur)
       IN  IF ~n.ok
           THEN hpc' = "done" /\ hcur' = hcur
           ELSE hpc' = "get_value" /\ hcur' = n.key
    /\ UNCHANGED <<hmap, horder, hres, hr, hwrites, clearVars, notHash>>

\* return res: the caller has the vector, the locals are gone
GetTableOfflineReturn ==
    /\ hpc = "done"
    /\ hpc' = "idle"
    /\ hcur' = NoKey
    /\ hres' = << >>
    /\ hr' = StatusOK
    /\ hwrites' = 0
    /\ UNCHANGED <<hmap, horder, clearVars, notHash>>

\* bpf_delete_elem: a present key is removed; an absent one fails with ENOENT
KernelDeleteElem(map, key) ==
    IF key \in DOMAIN map
    THEN [rc |-> 0, errno |-> "none", map |-> [x \in DOMAIN map \ {key} |-> map[x]]]
    ELSE [rc |-> -1, errno |-> "ENOENT", map |-> map]

\* BPFTableBase::remove: bpf_delete_elem(desc.fd, key) >= 0
TableBase_remove(map, key) ==
    LET d == KernelDeleteElem(map, key)
    IN  [ok |-> d.rc >= 0, errno |-> d.errno, map |-> d.map]

\* a remove_value that reports success whatever the kernel said
HashTable_remove_value_ok(map, key) ==
    [status |-> StatusOK, map |-> TableBase_remove(map, key).map]

\* BPFHashTable::remove_value
HashTable_remove_value(map, key) ==
    LET d == TableBase_remove(map, key)
    IN  IF ~d.ok
        THEN [status |-> ErrnoStatus("Error removing value", d.errno), map |-> d.map]
        ELSE [status |-> StatusOK, map |-> d.map]

\* clear_table_non_atomic: the loop condition this->first(&cur); on the
\* first pass the call has just been made
ClearTableFirst ==
    /\ hpc = "idle"
    /\ cpc \in {"idle", "first"}
    /\ LET f == TableBase_first(hmap, horder)
       IN  /\ IF ~f.ok
              THEN cpc' = "done" /\ ccur' = ccur /\ cret' = StatusOK
              ELSE cpc' = "remove" /\ ccur' = f.key /\ cret' = cret
           /\ cempty' = (hmap = << >>)
    /\ IF cpc = "idle"
       THEN /\ cstart' = Cardinality(DOMAIN hmap)
            /\ cdel' = 0
            /\ cfail' = 0
            /\ cheads' = TRUE
            /\ hwrites' = 0
       ELSE UNCHANGED <<cstart, cdel, cfail, cheads, hwrites>>
    /\ UNCHANGED <<hmap, horder, hpc, hcur, hres, hr, notHash>>

\* clear_table_non_atomic: TRY2(remove_value(cur)); TRY2 (bcc_exception.h)
\* returns a status that is not ok at once, otherwise the loop tests first()
\* again.  The history counts by what the kernel did with the delete.
ClearTableRemove ==
    /\ cpc = "remove"
    /\ LET d == HashTable_remove_value(hmap, ccur)
       IN  /\ hmap' = d.map
           /\ IF d.status.code # 0
              THEN cpc' = "done" /\ cret' = d.status
              ELSE cpc' = "first" /\ cret' = cret
    /\ cdel' = IF ccur \in DOMAIN hmap THEN cdel + 1 ELSE cdel
    /\ cfail' = IF ccur \in DOMAIN hmap THEN cfail ELSE cfail + 1
    /\ cheads' = (cheads /\ KernelGetFirstKey(hmap, horder).key = ccur)
    /\ UNCHANGED <<horder, hpc, hcur, hres, hr, hwrites, ccur, cstart, cempty, notHash>>

\* clear_table_non_atomic has returned: the caller has the status, the
\* local is gone
ClearTableReturn ==
    /\ cpc = "done"
    /\ cpc' = "idle"
    /\ ccur' = NoKey
    /\ cret' = StatusOK
    /\ cstart' = 0
    /\ cdel' = 0
    /\ cfail' = 0
    /\ cheads' = TRUE
    /\ cempty' = FALSE
    /\ hwrites' = 0
    /\ UNCHANGED <<hmap, horder, hpc, hcur, hres, hr, notHash>>

\* no clear_table_non_atomic call is running
ClearIdle ==
    /\ cpc = "idle"
    /\ ccur = NoKey
    /\ cret = StatusOK
    /\ cstart = 0
    /\ cdel = 0
    /\ cfail = 0
    /\ cheads = TRUE
    /\ cempty = FALSE

\* another user of the map (a BPF program, another process) writes an entry
OtherUpdate ==
    /\ (hpc = "idle" /\ cpc = "idle") \/ (Running /\ hwrites < MaxWrites)
    /\ \E k \in HKeys, v \in HVals :
           /\ (k \in DOMAIN hmap => hmap[k] # v)
           /\ hmap' = [x \in DOMAIN hmap \cup {k} |-> IF x = k THEN v ELSE hmap[x]]
    /\ hwrites' = IF Running THEN hwrites + 1 ELSE 0
    /\ UNCHANGED <<horder, hpc, hcur, hres, hr, clearVars, notHash>>

\* another user of the map deletes an entry
OtherDelete ==
    /\ (hpc = "idle" /\ cpc = "idle") \/ (Running /\ hwrites < MaxWrites)
    /\ \E k \in DOMAIN hmap : hmap' = [x \in DOMAIN hmap \ {k} |-> hmap[x]]
    /\ hwrites' = IF Running THEN hwrites + 1 ELSE 0
    /\ UNCHANGED <<horder, hpc, hcur, hres, hr, clearVars, notHash>>

HashInit ==
    /\ hmap = << >>
    /\ horder \in Orders
    /\ hpc = "idle"
    /\ hcur = NoKey
    /\ hres = << >>
    /\ hr = StatusOK
    /\ hwrites = 0
    /\ ClearIdle

HashIdle ==
    /\ hmap = << >>
    /\ horder = [i \in 1..NKeys |-> i]
    /\ hpc = "idle"
    /\ hcur = NoKey
    /\ hres = << >>
    /\ hr = StatusOK
    /\ hwrites = 0
    /\ ClearIdle

\* ------------------------------------------------------ BPFQueueStackTable

QVals == {1, 2}
NoValue == 0
\* the flags argument of push_value
PushFlags == {"BPF_ANY", "BPF_NOEXIST", "BPF_EXIST"}
\* the access modes an fd of a map can have
FdModes == {"rw", "rdonly", "wronly"}

\* the item a pop or a peek takes: the oldest of a queue, the newest of a stack
NextOut(type, items) == IF type = QUEUE THEN items[1] ELSE items[Len(items)]
WithoutNextOut(type, items) ==
    IF type = QUEUE THEN Tail(items) ELSE SubSeq(items, 1, Len(items) - 1)

\* bpf_lookup_and_delete(fd, nullptr, value)
KernelLookupAndDelete(type, perm, items) ==
    IF perm # "rw"
    THEN [rc |-> -1, errno |-> "EPERM", value |-> NoValue, items |-> items]
    ELSE IF items = << >>
    THEN [rc |-> -1, errno |-> "ENOENT", value |-> NoValue, items |-> items]
    ELSE [rc |-> 0, errno |-> "none", value |-> NextOut(type, items),
          items |-> WithoutNextOut(type, items)]

\* bpf_lookup_elem(fd, nullptr, value)
KernelPeek(type, perm, items) ==
    IF perm = "wronly"
    THEN [rc |-> -1, errno |-> "EPERM", value |-> NoValue, items |-> items]
    ELSE IF items = << >>
    THEN [rc |-> -1, errno |-> "ENOENT", value |-> NoValue, items |-> items]
    ELSE [rc |-> 0, errno |-> "none", value |-> NextOut(type, items), items |-> items]

\* bpf_update_elem(fd, nullptr, value, flags): with BPF_EXIST a full
\* container drops its oldest item to make room
KernelPush(type, perm, items, value, flags) ==
    IF perm = "rdonly"
    THEN [rc |-> -1, errno |-> "EPERM", items |-> items, evicted |-> FALSE]
    ELSE IF flags = "BPF_NOEXIST"
    THEN [rc |-> -1, errno |-> "EINVAL", items |-> items, evicted |-> FALSE]
    ELSE IF Len(items) >= QCap
    THEN IF flags = "BPF_EXIST"
         THEN [rc |-> 0, errno |-> "none", items |-> Append(Tail(items), value),
               evicted |-> TRUE]
         ELSE [rc |-> -1, errno |-> "E2BIG", items |-> items, evicted |-> FALSE]
    ELSE [rc |-> 0, errno |-> "none", items |-> Append(items, value), evicted |-> FALSE]

\* a pop that reads the item and leaves it in the container
QueueStackBase_pop_keeps(type, perm, items) ==
    LET k == KernelPeek(type, perm, items)
    IN  [ok |-> k.rc >= 0, errno |-> k.errno, value |-> k.value, items |-> k.items]

\* BPFQueueStackTableBase::pop
QueueStackBase_pop(type, perm, items) ==
    LET k == KernelLookupAndDelete(type, perm, items)
    IN  [ok |-> k.rc >= 0, errno |-> k.errno, value |-> k.value, items |-> k.items]

\* BPFQueueStackTableBase::push
QueueStackBase_push(type, perm, items, value, flags) ==
    LET k == KernelPush(type, perm, items, value, flags)
    IN  [ok |-> k.rc >= 0, errno |-> k.errno, items |-> k.items, evicted |-> k.evicted]

\* BPFQueueStackTableBase::peek
QueueStackBase_peek(type, perm, items) ==
    LET k == KernelPeek(type, perm, items)
    IN  [ok |-> k.rc >= 0, errno |-> k.errno, value |-> k.value, items |-> k.items]

\* a pop_value whose error message leaves errno out
QueueStack_pop_value_no_errno(type, perm, items) ==
    LET p == QueueStackBase_pop(type, perm, items)
    IN  [status |-> IF ~p.ok THEN StatusTuple(-1, <<"Error getting value", "">>)
                    ELSE StatusOK,
         value |-> p.value, items |-> p.items]

\* BPFQueueStackTable::pop_value
QueueStack_pop_value(type, perm, items) ==
    LET p == QueueStackBase_pop(type, perm, items)
    IN  [status |-> IF ~p.ok THEN ErrnoStatus("Error getting value", p.errno)
                    ELSE StatusOK,
         value |-> p.value, items |-> p.items]

\* BPFQueueStackTable::push_value
QueueStack_push_value(type, perm, items, value, flags) ==
    LET p == QueueStackBase_push(type, perm, items, value, flags)
    IN  [status |-> IF ~p.ok THEN ErrnoStatus("Error updating value", p.errno)
                    ELSE StatusOK,
         items |-> p.items, evicted |-> p.evicted]

\* BPFQueueStackTable::get_head
QueueStack_get_head(type, perm, items) ==
    LET p == QueueStackBase_peek(type, perm, items)
    IN  [status |-> IF ~p.ok THEN ErrnoStatus("Error peeking value", p.errno)
                    ELSE StatusOK,
         value |-> p.value, items |-> p.items]

NoQLast == [op |-> "none", status |-> StatusOK, value |-> NoValue, wasEmpty |-> TRUE]

PopValue ==
    LET r == QueueStack_pop_value(qtype, qperm, q)
    IN  /\ q' = r.items
        /\ qlast' = [op |-> "pop_value", status |-> r.status, value |-> r.value,
                     wasEmpty |-> q = << >>]
        /\ qpopped' = IF r.status.code = 0 /\ ~qmixed /\ ~qevicted
                      THEN Append(qpopped, r.value)
                      ELSE qpopped
        /\ UNCHANGED <<qtype, qperm, qpushed, qmixed, qevicted, notQueue>>

PushValue ==
    \E value \in QVals, flags \in PushFlags :
        LET r == QueueStack_push_value(qtype, qperm, q, value, flags)
            ok == r.status.code = 0
            fresh == q = << >>
        IN  /\ q' = r.items
            /\ qlast' = [op |-> "push_value", status |-> r.status, value |-> value,
                         wasEmpty |-> fresh]
            /\ IF ~ok
               THEN UNCHANGED <<qpushed, qpopped, qmixed, qevicted>>
               ELSE IF fresh
               THEN /\ qpushed' = <<value>>
                    /\ qpopped' = << >>
                    /\ qmixed' = FALSE
                    /\ qevicted' = FALSE
               ELSE /\ qmixed' = (qmixed \/ qpopped # << >>)
                    /\ qevicted' = (qevicted \/ r.evicted)
                    /\ IF qmixed' \/ qevicted'
                       THEN qpushed' = << >> /\ qpopped' = << >>
                       ELSE qpushed' = Append(qpushed, value) /\ qpopped' = qpopped
            /\ UNCHANGED <<qtype, qperm, notQueue>>

GetHead ==
    LET r == QueueStack_get_head(qtype, qperm, q)
    IN  /\ q' = r.items
        /\ qlast' = [op |-> "get_head", status |-> r.status, value |-> r.value,
                     wasEmpty |-> q = << >>]
        /\ UNCHANGED <<qtype, qperm, qpushed, qpopped, qmixed, qevicted, notQueue>>

QueueInit ==
    /\ qtype \in {QUEUE, STACK}
    /\ qperm \in FdModes
    /\ q = << >>
    /\ qlast = NoQLast
    /\ qpushed = << >>
    /\ qpopped = << >>
    /\ qmixed = FALSE
    /\ qevicted = FALSE

QueueIdle ==
    /\ qtype = QUEUE
    /\ qperm = "rw"
    /\ q = << >>
    /\ qlast = NoQLast
    /\ qpushed = << >>
    /\ qpopped = << >>
    /\ qmixed = FALSE
    /\ qevicted = FALSE

\* ------------------------------------- BPFPerfBuffer, BPFPerfEventArray
\* The header declares these two classes only; what their members do is
\* taken from the specification (4.7, 4.8, 5).

Cpus == 0..(NCpus - 1)
CpusBelow(i) == { c \in Cpus : c < i }
\* page_cnt: the kernel takes a power of two
PageCnts == {0, 1, 2, 3}
ValidPageCnt(n) == n \in {1, 2}
WakeupEvents == {1, 2}
TimeoutsMs == {0, 10}
NoCpu == -1

\* the readers epoll reports: enough buffered samples to wake the poller,
\* or a lost-sample record to report
ReadyReaders(readers, rings, lostp, wakeup) ==
    { c \in readers : Len(rings[c]) >= wakeup \/ lostp[c] }

SamplesIn(rings, cpus) == UNION { { rings[c][i] : i \in 1..Len(rings[c]) } : c \in cpus }

\* data_cb once for every sample of the drained readers
DeliverAll(counts, rings, cpus) ==
    [s \in DOMAIN counts |->
        IF s \in SamplesIn(rings, cpus)
        THEN (IF counts[s] = 0 THEN 1 ELSE 2)
        ELSE counts[s]]

\* a drain that hands the samples over and leaves them in the ring
DrainReaders_keeps(rings, cpus) == rings

\* draining readers empties their rings
DrainReaders(rings, cpus) == [c \in Cpus |-> IF c \in cpus THEN << >> ELSE rings[c]]

\* a close that forgets nothing
ReadersAfterClose_keeps(readers) == readers

\* close_all_cpu: every per-CPU reader is unregistered and released
ReadersAfterClose(readers) == {}

\* an open that unwinds what it opened when one CPU fails
ReadersAfterOpen_rollback(failAt) == IF failAt = NoCpu THEN Cpus ELSE {}

\* open_all_cpu: readers for the CPUs below the failing one stay open
ReadersAfterOpen(failAt) == IF failAt = NoCpu THEN Cpus ELSE CpusBelow(failAt)

NoPbLast == [op |-> "none", ret |-> 0, ncb |-> 0, nlost |-> 0, waited |-> FALSE]

\* BPFPerfBuffer::open_all_cpu: an invalid page_cnt fails on the first CPU,
\* any CPU may fail for want of kernel resources
PbOpenAllCpu ==
    /\ pb_alive
    /\ cpu_readers = {}
    /\ \E page_cnt \in PageCnts, wakeup \in WakeupEvents, fault \in Cpus \cup {NoCpu} :
           LET failAt == IF ~ValidPageCnt(page_cnt) THEN 0 ELSE fault
           IN  /\ cpu_readers' = ReadersAfterOpen(failAt)
               /\ wakeup_events' = wakeup
               /\ pb_failed_at' = failAt
               /\ pblast' = [NoPbLast EXCEPT !.op = "open_all_cpu",
                                             !.ret = IF failAt = NoCpu THEN 0 ELSE -1]
    /\ pb_closed' = FALSE
    /\ UNCHANGED <<pb_alive, ring, lost_pending, nsamples, delivered, gone,
                   cpu_fds, pealast, pea_failed_at, notPerf>>

\* BPFPerfBuffer::poll: with no reader it returns 0 at once; else it waits
\* up to timeout_ms for a ready reader and drains the ready ones
PbPoll ==
    /\ pb_alive
    /\ \E timeout_ms \in TimeoutsMs :
           LET ready == ReadyReaders(cpu_readers, ring, lost_pending, wakeup_events)
           IN  /\ delivered' = DeliverAll(delivered, ring, ready)
               /\ ring' = DrainReaders(ring, ready)
               /\ lost_pending' = [c \in Cpus |-> IF c \in ready THEN FALSE ELSE lost_pending[c]]
               /\ pblast' = [op |-> "poll", ret |-> Cardinality(ready),
                             ncb |-> Cardinality(SamplesIn(ring, ready)),
                             nlost |-> Cardinality({ c \in ready : lost_pending[c] }),
                             waited |-> (cpu_readers # {} /\ ready = {} /\ timeout_ms > 0)]
    /\ UNCHANGED <<pb_alive, cpu_readers, wakeup_events, nsamples, gone,
                   pb_failed_at, pb_closed, cpu_fds, pealast, pea_failed_at, notPerf>>

\* BPFPerfBuffer::consume: drains every tracked reader without waiting
PbConsume ==
    /\ pb_alive
    /\ delivered' = DeliverAll(delivered, ring, cpu_readers)
    /\ ring' = DrainReaders(ring, cpu_readers)
    /\ lost_pending' = [c \in Cpus |-> IF c \in cpu_readers THEN FALSE ELSE lost_pending[c]]
    /\ pblast' = [op |-> "consume", ret |-> 0,
                  ncb |-> Cardinality(SamplesIn(ring, cpu_readers)),
                  nlost |-> Cardinality({ c \in cpu_readers : lost_pending[c] }),
                  waited |-> FALSE]
    /\ UNCHANGED <<pb_alive, cpu_readers, wakeup_events, nsamples, gone,
                   pb_failed_at, pb_closed, cpu_fds, pealast, pea_failed_at, notPerf>>

\* releasing the readers releases their ring buffers and what they hold
PbRelease ==
    /\ cpu_readers' = ReadersAfterClose(cpu_readers)
    /\ gone' = gone \cup SamplesIn(ring, cpu_readers \ cpu_readers')
    /\ ring' = DrainReaders(ring, cpu_readers \ cpu_readers')
    /\ lost_pending' = [c \in Cpus |-> lost_pending[c] /\ c \in cpu_readers']
    /\ pb_failed_at' = NoCpu

\* BPFPerfBuffer::close_all_cpu
PbCloseAllCpu ==
    /\ pb_alive
    /\ PbRelease
    /\ pb_closed' = TRUE
    /\ pblast' = [NoPbLast EXCEPT !.op = "close_all_cpu"]
    /\ UNCHANGED <<pb_alive, wakeup_events, nsamples, delivered,
                   cpu_fds, pealast, pea_failed_at, notPerf>>

\* BPFPerfBuffer::~BPFPerfBuffer
PbDestroy ==
    /\ pb_alive
    /\ pb_alive' = FALSE
    /\ PbRelease
    /\ pblast' = [NoPbLast EXCEPT !.op = "destroy"]
    /\ UNCHANGED <<wakeup_events, nsamples, delivered, pb_closed,
                   cpu_fds, pealast, pea_failed_at, notPerf>>

\* the kernel writes a sample for a CPU whose reader is open; a full ring
\* drops it and notes the loss
KernelWriteSample ==
    /\ nsamples < MaxSamples
    /\ nsamples' = nsamples + 1
    /\ \E c \in cpu_readers :
           IF Len(ring[c]) < RingCap
           THEN /\ ring' = [ring EXCEPT ![c] = Append(@, nsamples + 1)]
                /\ UNCHANGED <<gone, lost_pending>>
           ELSE /\ gone' = gone \cup {nsamples + 1}
                /\ lost_pending' = [lost_pending EXCEPT ![c] = TRUE]
                /\ UNCHANGED ring
    /\ UNCHANGED <<pb_alive, cpu_readers, wakeup_events, delivered, pblast,
                   pb_failed_at, pb_closed, cpu_fds, pealast, pea_failed_at, notPerf>>

\* BPFPerfEventArray::open_all_cpu: same policy, one event fd per CPU
PeaOpenAllCpu ==
    /\ cpu_fds = {}
    /\ \E fault \in Cpus \cup {NoCpu} :
           /\ cpu_fds' = ReadersAfterOpen(fault)
           /\ pea_failed_at' = fault
           /\ pealast' = [op |-> "open_all_cpu", ret |-> IF fault = NoCpu THEN 0 ELSE -1]
    /\ UNCHANGED <<pb_alive, cpu_readers, wakeup_events, ring, lost_pending, nsamples,
                   delivered, gone, pblast, pb_failed_at, pb_closed, notPerf>>

\* BPFPerfEventArray::close_all_cpu
PeaCloseAllCpu ==
    /\ cpu_fds' = ReadersAfterClose(cpu_fds)
    /\ pea_failed_at' = NoCpu
    /\ pealast' = [op |-> "close_all_cpu", ret |-> 0]
    /\ UNCHANGED <<pb_alive, cpu_readers, wakeup_events, ring, lost_pending, nsamples,
                   delivered, gone, pblast, pb_failed_at, pb_closed, notPerf>>

PerfInit ==
    /\ pb_alive = TRUE
    /\ cpu_readers = {}
    /\ wakeup_events = 1
    /\ ring = [c \in Cpus |-> << >>]
    /\ lost_pending = [c \in Cpus |-> FALSE]
    /\ nsamples = 0
    /\ delivered = [s \in 1..MaxSamples |-> 0]
    /\ gone = {}
    /\ pblast = NoPbLast
    /\ pb_failed_at = NoCpu
    /\ pb_closed = FALSE
    /\ cpu_fds = {}
    /\ pealast = [op |-> "none", ret |-> 0]
    /\ pea_failed_at = NoCpu

\* ---------------------------------------------------------- specifications

\* constructor calls, under every build
InitCtor == CtorInit /\ PercpuIdle /\ HashIdle /\ QueueIdle /\ PerfInit
NextCtor == Construct
SpecCtor == InitCtor /\ [][NextCtor]_vars

\* constructor calls and get_value on the handle they leave, under every build
InitGet == CtorInit /\ PercpuIdle /\ HashIdle /\ QueueIdle /\ PerfInit
NextGet ==
    \/ Construct
    \/ GetValue
SpecGet == InitGet /\ [][NextGet]_vars

\* update_value on a handle of each per-CPU class
InitPercpu == CtorIdle /\ PercpuInit /\ HashIdle /\ QueueIdle /\ PerfInit
NextPercpu == UpdateValue \/ CgAttach
SpecPercpu == InitPercpu /\ [][NextPercpu]_vars

\* get_table_offline on a hash map that other users write to
InitHash == CtorIdle /\ PercpuIdle /\ HashInit /\ QueueIdle /\ PerfInit
NextHash ==
    \/ GetTableOfflineFirst
    \/ GetTableOfflineGetValue
    \/ GetTableOfflineNext
    \/ GetTableOfflineReturn
    \/ OtherUpdate
    \/ OtherDelete
SpecHash == InitHash /\ [][NextHash]_vars

\* clear_table_non_atomic on a hash map that other users write to
InitClear == CtorIdle /\ PercpuIdle /\ HashInit /\ QueueIdle /\ PerfInit
NextClear ==
    \/ ClearTableFirst
    \/ ClearTableRemove
    \/ ClearTableReturn
    \/ OtherUpdate
    \/ OtherDelete
SpecClear == InitClear /\ [][NextClear]_vars

\* push, pop and peek on a queue and on a stack, under every fd mode
InitQueue == CtorIdle /\ PercpuIdle /\ HashIdle /\ QueueInit /\ PerfInit
NextQueue == PushValue \/ PopValue \/ GetHead
SpecQueue == InitQueue /\ [][NextQueue]_vars

\* the perf buffer and the perf event array, with the kernel producing samples
InitPerf == CtorIdle /\ PercpuIdle /\ HashIdle /\ QueueIdle /\ PerfInit
NextPerf ==
    \/ PbOpenAllCpu
    \/ PbPoll
    \/ PbConsume
    \/ PbCloseAllCpu
    \/ PbDestroy
    \/ KernelWriteSample
    \/ PeaOpenAllCpu
    \/ PeaCloseAllCpu
SpecPerf == InitPerf /\ [][NextPerf]_vars

\* ------------------------------------------------------------------ claims

\* the accepted kinds of each class template, as the specification lists them
Accepted(variant) ==
    CASE variant = "BPFQueueStackTable" -> {QUEUE, STACK}
      [] variant = "BPFArrayTable" -> {ARRAY, PERCPU_ARRAY}
      [] variant = "BPFPercpuArrayTable" -> {PERCPU_ARRAY}
      [] variant = "BPFHashTable" -> {HASH, PERCPU_HASH, LRU_HASH, LRU_PERCPU_HASH}
      [] variant = "BPFPercpuHashTable" -> {PERCPU_HASH, LRU_PERCPU_HASH}
      [] variant = "BPFMapInMapTable" -> {ARRAY_OF_MAPS, HASH_OF_MAPS}
      [] variant = "BPFSkStorageTable" -> {SK_STORAGE}
      [] variant = "BPFInodeStorageTable" -> {INODE_STORAGE}
      [] variant = "BPFTaskStorageTable" -> {TASK_STORAGE}
      [] variant = "BPFCgStorageTable" -> {CGROUP_STORAGE}
      [] variant = "BPFPercpuCgStorageTable" -> {PERCPU_CGROUP_STORAGE}

KindMismatch(outcome) ==
    /\ ~outcome.ok
    /\ outcome.exc = "std::invalid_argument"
    /\ outcome.what # NotAligned.what

\* C1: a per-CPU update_value given a sequence whose length is not the CPU
\* count returns "bad value size", issues no kernel update call and leaves
\* the caller's sequence and the map as they were.
C1_BadSizeRejectedBeforeKernel ==
    (plast.op = "update_value" /\ Len(plast.given) # NCpus) =>
        /\ plast.status = StatusTuple(-1, "bad value size")
        /\ ~plast.kcall
        /\ plast.value = plast.given
        /\ pmap = plast.mapBefore

\* C2: a constructor given a descriptor whose kind is outside the accepted
\* set of its class fails with a kind-mismatch error and leaves no handle.
C2_MismatchedKindRejected ==
    (ctor.variant # "none" /\ ctor.type \notin Accepted(ctor.variant)) =>
        /\ KindMismatch(ctor.outcome)
        /\ handle = NoHandle

\* C3: a constructor given a descriptor of a kind its class accepts (and an
\* 8-byte-multiple value type for the per-CPU classes) succeeds and leaves a
\* usable handle; the inode-storage and task-storage classes included.
C3_MatchingKindConstructs ==
    ( /\ ctor.variant # "none"
      /\ ctor.type \in Accepted(ctor.variant)
      /\ (ctor.variant \in PercpuVariants => ctor.sizeofValue % 8 = 0) ) =>
        /\ ctor.outcome.ok
        /\ handle = [variant |-> ctor.variant, type |-> ctor.type]

\* what a walk that nobody disturbs and that no read failure cuts short
\* returns for a map: its entries in the kernel's order
RECURSIVE UndisturbedWalkFrom(_, _, _)
UndisturbedWalkFrom(map, order, from) ==
    LET i == FirstPresentAt(map, order, from)
    IN  IF i = 0 THEN << >>
        ELSE <<<<order[i], map[order[i]]>>>> \o UndisturbedWalkFrom(map, order, i + 1)

\* C4: with no concurrent mutation get_table_offline returns exactly one
\* (key, value) pair per entry of the map (none for an empty map), the keys
\* pairwise distinct, each value the one lookup returns for its key.
C4_WalkReturnsEveryEntryOnce ==
    (hpc = "done" /\ hwrites = 0) =>
        /\ Len(hres) = Cardinality(DOMAIN hmap)
        /\ \A i, j \in 1..Len(hres) : hres[i][1] = hres[j][1] => i = j
        /\ \A i \in 1..Len(hres) :
               LET l == HashTable_get_value(hmap, hres[i][1])
               IN  l.status = StatusOK /\ l.value = hres[i][2]

\* C4 witness: an undisturbed walk over a full map has returned
C4_Witness_FullMapWalked ==
    /\ hpc = "done"
    /\ hwrites = 0
    /\ DOMAIN hmap = HKeys
    /\ Len(hres) = NKeys

\* C4 witness of the empty case
C4_Witness_EmptyMapWalked ==
    hpc = "done" /\ hwrites = 0 /\ hmap = << >> /\ hres = << >>

\* C5: a walk that a failed value read cut short hands the caller something
\* that no walk ending normally (on "no next key", or on an empty map) could
\* have handed over, so that the caller can tell the two apart.
C5_AbortedWalkIsDistinguishable ==
    (hpc = "done" /\ hr.code # 0) =>
        \A m \in HashMaps : UndisturbedWalkFrom(m, horder, 1) # hres

\* what pop_value and get_head report when the kernel finds nothing to take
EmptyPop == ErrnoStatus("Error getting value", "ENOENT")
EmptyPeek == ErrnoStatus("Error peeking value", "ENOENT")

C10_FifoLifoOrder ==
    (~qmixed /\ ~qevicted) =>
        LET k == Len(qpushed)
            n == Len(qpopped)
        IN  /\ n <= k
            /\ Len(q) = k - n
            /\ \A i \in 1..n :
                   qpopped[i] = IF qtype = QUEUE THEN qpushed[i] ELSE qpushed[k - i + 1]
            /\ (qlast.op = "get_head" /\ qlast.status.code = 0) =>
                   /\ n < k
                   /\ qlast.value = IF qtype = QUEUE THEN qpushed[n + 1] ELSE qpushed[k - n]
                   /\ qlast.value = QueueStack_pop_value(qtype, qperm, q).value

\* C10 witness: QCap items, not all alike, went into a stack and came out
C10_Witness_StackRoundDone ==
    /\ qtype = STACK
    /\ ~qmixed /\ ~qevicted
    /\ Len(qpushed) = QCap
    /\ Len(qpopped) = QCap
    /\ qpushed[1] # qpushed[QCap]

\* C6: once close_all_cpu has run, from whatever state, and until
\* open_all_cpu is called again, the reader set is empty and every poll and
\* consume returns 0 at once, whatever the timeout, with no data_cb and no
\* lost_cb call.
C6_ClosedPollIsNoOp ==
    pb_closed =>
        /\ cpu_readers = {}
        /\ pblast.op \in {"poll", "consume"} =>
               /\ pblast.ret = 0
               /\ pblast.ncb = 0
               /\ pblast.nlost = 0
               /\ ~pblast.waited

\* C6 witness: a poll after a close that released readers holding samples
C6_Witness_PollAfterClose ==
    /\ pb_closed
    /\ pblast.op = "poll"
    /\ gone # {}

\* C7: while the perf buffer stays open, a sample written to a ring buffer
\* reaches data_cb at most once over all polls and consumes, and exactly once
\* as soon as it is no longer in its ring.
C7_SampleDeliveredExactlyOnce ==
    \A s \in 1..nsamples :
        /\ delivered[s] <= 1
        /\ (s \notin SamplesIn(ring, Cpus) /\ s \notin gone) => delivered[s] = 1
        /\ s \in SamplesIn(ring, Cpus) => delivered[s] = 0

\* C7 witness: after the last sample was delivered, another poll and consume
\* have run and every sample has reached data_cb once
C7_Witness_AllDeliveredThenPolled ==
    /\ nsamples = MaxSamples
    /\ gone = {}
    /\ \A s \in 1..MaxSamples : delivered[s] = 1
    /\ pblast.op = "poll"
    /\ pblast.ncb = 0
    /\ cpu_readers = Cpus

\* C8: when open_all_cpu fails at CPU i it returns an error, and the readers
\* (perf buffer) or descriptors (perf event array) of the CPUs below i stay
\* open and tracked until close_all_cpu or the destructor releases them.
C8_PartialOpenIsKept ==
    /\ pb_failed_at # NoCpu => cpu_readers = CpusBelow(pb_failed_at)
    /\ (pblast.op = "open_all_cpu" /\ pb_failed_at # NoCpu) => pblast.ret # 0
    /\ pea_failed_at # NoCpu => cpu_fds = CpusBelow(pea_failed_at)
    /\ (pealast.op = "open_all_cpu" /\ pea_failed_at # NoCpu) => pealast.ret # 0

\* C8 witness: both opens failed at the last CPU, and the perf buffer has
\* since delivered a sample from a reader it kept
C8_Witness_KeptReadersInUse ==
    /\ pb_failed_at = NCpus - 1
    /\ pea_failed_at = NCpus - 1
    /\ cpu_fds # {}
    /\ pblast.op = "poll"
    /\ pblast.ncb > 0


\* C11: with no write by another user while it runs, clear_table_non_atomic
\* on a map of N entries returns OK after exactly N deletes, all of them
\* successful and each of the key the kernel held first, and leaves the map
\* empty; on an empty map it issues no delete at all
C11_UndisturbedClearEmptiesMap ==
    (cpc = "done" /\ hwrites = 0) =>
        /\ cret = StatusOK
        /\ hmap = << >>
        /\ cdel = cstart
        /\ cfail = 0
        /\ cheads
        /\ cempty

\* an undisturbed clear of a full map has returned
C11_Witness_FullMapCleared ==
    cpc = "done" /\ hwrites = 0 /\ cstart = NKeys /\ cdel = NKeys

\* an undisturbed clear of an empty map has returned
C11_Witness_EmptyMapCleared ==
    cpc = "done" /\ hwrites = 0 /\ cstart = 0 /\ cdel + cfail = 0


\* a step of the running clear that hands the kernel a key the map no longer
\* holds ends the clear with an error and deletes nothing
DeleteOfGoneKeyEndsClear ==
    (cpc = "remove" /\ cpc' # "remove" /\ ccur \notin DOMAIN hmap) =>
        /\ cpc' = "done"
        /\ cret' = ErrnoStatus("Error removing value", "ENOENT")
        /\ hmap' = hmap

\* C13: whatever other users of the map do meanwhile, clear_table_non_atomic
\* makes no delete after one that failed and returns the error of that
\* delete (a head key deleted by another user between first() and the delete
\* is such a failure), and it returns OK only when its last first-key call
\* met an empty map
C13_ClearStopsAtFirstFailedDelete ==
    /\ [](/\ cfail <= 1
          /\ cfail = 1 =>
                 /\ cpc = "done"
                 /\ cret = ErrnoStatus("Error removing value", "ENOENT")
          /\ (cpc = "done" /\ cret = StatusOK) => (cempty /\ cfail = 0)
          /\ (cpc = "done" /\ cfail = 0) => cret = StatusOK)
    /\ [][DeleteOfGoneKeyEndsClear]_vars

\* a clear that had deleted entries returned the error of a delete whose key
\* another user had removed first
C13_Witness_ClearAbortedByOtherDelete ==
    /\ cpc = "done"
    /\ cret.code = -1
    /\ cfail = 1
    /\ cdel > 0
    /\ hwrites = 1
    /\ hmap # << >>


\* C12: every get_value on a constructed handle hands the kernel a
\* destination at least as large as what the kernel writes for the kind of
\* the descriptor: the value size for the plain kinds, CPU count times the
\* value size for the per-CPU kinds
C12_GetValueBufferHoldsKernelWrite ==
    glast.called => glast.written <= glast.buffer

====
